---- MODULE Spec2Model ----
(***************************************************************************)
(* A model of the memory_cache crate: the Cache<T> type of src/lib.rs      *)
(* (insert, get, invalidate over a map of entries with an absolute expiry  *)
(* in whole seconds), its persistence adapter (load_cache, save_cache over *)
(* the file cache_state.json) and the single-shot command line of          *)
(* src/main.rs.                                                            *)
(***************************************************************************)
EXTENDS Integers, Sequences, FiniteSets, TLC

(***************************************************************************)
(* Bounds and input sets.                                                  *)
(***************************************************************************)
\* The system clock runs over -1..MaxTime whole seconds; -1 stands for any
\* instant before the Unix epoch.
MaxTime == 2

ClockValues == -1..MaxTime

Keys == {"a", "b"}

Values == {"v1", "v2"}

\* u64 (CacheEntry::expiry, Duration::as_secs, the --ttl argument) is 64 bits
\* wide; the model keeps the wrap-around but scales the width to 30 bits, the
\* widest power of two whose sums stay inside TLC's 32-bit integers.
U64Modulus == 2^30

U64Max == U64Modulus - 1

\* std::time::Duration: whole seconds and a sub-second part in nanoseconds.
Duration(s, n) == [secs |-> s, nanos |-> n]

from_secs(s) == Duration(s, 0)

\* The ttl arguments the library client passes: zero, a sub-second ttl, two
\* different positive ttls, and the largest ttl the type holds.
Durations ==
    {from_secs(0), Duration(0, 500000000), from_secs(1), from_secs(2), from_secs(U64Max)}

\* A variant of as_secs that rounds to the nearest second instead of
\* truncating.
as_secs_rounded(d) == d.secs + (IF d.nanos >= 500000000 THEN 1 ELSE 0)

\* Duration::as_secs: the whole seconds, the sub-second part dropped.
as_secs(d) == d.secs

(***************************************************************************)
(* Option<T> and the entries map.                                          *)
(***************************************************************************)
None == [some |-> FALSE, value |-> ""]

Some(v) == [some |-> TRUE, value |-> v]

\* CacheEntry<T> { value, expiry }
CacheEntry(v, e) == [value |-> v, expiry |-> e]

\* HashMap::new(): the map with no key.
new == [k \in {} |-> CacheEntry("", 0)]

\* HashMap::insert: the entry of key replaced or added.
map_insert(m, key, entry) ==
    [k \in (DOMAIN m) \cup {key} |-> IF k = key THEN entry ELSE m[k]]

\* HashMap::remove: the map without key (the same map when key is absent).
map_remove(m, key) == [k \in (DOMAIN m) \ {key} |-> m[k]]

(***************************************************************************)
(* Cache<T>: the three operations as functions of the map, the clock and   *)
(* the build's overflow checking.  Each returns the map it leaves, the     *)
(* value it returns and whether it panicked.                               *)
(***************************************************************************)
Outcome(m, r, p) == [entries |-> m, ret |-> r, panic |-> p]

\* SystemTime::now().duration_since(UNIX_EPOCH).unwrap(): panics when the
\* clock is before the epoch.
clock_panics(clock) == clock < 0

\* now + ttl.as_secs() on u64: with overflow checks (a debug build) a sum
\* past u64::MAX panics, without them (a release build) it wraps.
add_overflows(a, b) == a + b >= U64Modulus

wrapping_add(a, b) == (a + b) % U64Modulus

insert(m, key, value, ttl, clock, checks) ==
    IF clock_panics(clock) THEN Outcome(m, None, TRUE)
    ELSE IF add_overflows(clock, as_secs(ttl)) /\ checks THEN Outcome(m, None, TRUE)
    ELSE Outcome(map_insert(m, key, CacheEntry(value, wrapping_add(clock, as_secs(ttl)))),
                 None, FALSE)

\* A variant of invalidate that leaves the entry in the map.
invalidate_keeps(m, key) == Outcome(m, None, FALSE)

invalidate(m, key) == Outcome(map_remove(m, key), None, FALSE)

\* A variant of the expiry test that still accepts the expiry second itself.
unexpired_inclusive(clock, entry) == clock <= entry.expiry

\* The expiry test of get: strictly before the expiry second.
unexpired(clock, entry) == clock < entry.expiry

\* A variant of get that reports an expired entry as none but does not
\* remove it.
get_without_removal(m, key, clock) ==
    IF key \notin DOMAIN m THEN Outcome(m, None, FALSE)
    ELSE IF clock_panics(clock) THEN Outcome(m, None, TRUE)
    ELSE IF unexpired(clock, m[key]) THEN Outcome(m, Some(m[key].value), FALSE)
    ELSE Outcome(m, None, FALSE)

\* A variant of get with sliding expiration: a hit pushes the entry's expiry
\* one second further.
get_sliding(m, key, clock) ==
    IF key \notin DOMAIN m THEN Outcome(m, None, FALSE)
    ELSE IF clock_panics(clock) THEN Outcome(m, None, TRUE)
    ELSE IF unexpired(clock, m[key])
    THEN Outcome(map_insert(m, key, CacheEntry(m[key].value, m[key].expiry + 1)),
                 Some(m[key].value), FALSE)
    ELSE Outcome(map_remove(m, key), None, FALSE)

\* A variant of get that sweeps: a lookup that reads the clock removes every
\* entry whose expiry has passed, not only the one looked up.
get_sweeping(m, key, clock) ==
    IF key \notin DOMAIN m THEN Outcome(m, None, FALSE)
    ELSE IF clock_panics(clock) THEN Outcome(m, None, TRUE)
    ELSE LET kept == [j \in {i \in DOMAIN m : unexpired(clock, m[i])} |-> m[j]] IN
         IF unexpired(clock, m[key]) THEN Outcome(kept, Some(m[key].value), FALSE)
         ELSE Outcome(kept, None, FALSE)

get(m, key, clock) ==
    IF key \notin DOMAIN m THEN Outcome(m, None, FALSE)
    ELSE IF clock_panics(clock) THEN Outcome(m, None, TRUE)
    ELSE IF unexpired(clock, m[key]) THEN Outcome(m, Some(m[key].value), FALSE)
    ELSE Outcome(invalidate(m, key).entries, None, FALSE)

(***************************************************************************)
(* The persisted file.  Its content is a sequence of tokens: the JSON       *)
(* punctuation, string literals, numbers, and bytes that are not UTF-8.    *)
(***************************************************************************)
Tok(t, str, n) == [t |-> t, s |-> str, n |-> n]

LBrace == Tok("{", "", 0)

RBrace == Tok("}", "", 0)

Colon == Tok(":", "", 0)

Comma == Tok(",", "", 0)

Str(str) == Tok("str", str, 0)

Num(n) == Tok("num", "", n)

\* A run of bytes that is not valid UTF-8.
InvalidUtf8 == Tok("bytes", "", 0)

\* A variant of Member that does not write the expiry (it writes 0).
Member_without_expiry(k, e) ==
    <<Str(k), Colon, LBrace, Str("value"), Colon, Str(e.value), Comma,
      Str("expiry"), Colon, Num(0), RBrace>>

\* #[derive(Serialize)] of CacheEntry, as one member of the entries object:
\* "k":{"value":"v","expiry":n}
Member(k, e) ==
    <<Str(k), Colon, LBrace, Str("value"), Colon, Str(e.value), Comma,
      Str("expiry"), Colon, Num(e.expiry), RBrace>>

MemberLen == 11

RECURSIVE Members(_, _)
Members(m, order) ==
    IF order = <<>> THEN <<>>
    ELSE Member(Head(order), m[Head(order)])
         \o (IF Len(order) > 1 THEN <<Comma>> ELSE <<>>)
         \o Members(m, Tail(order))

\* The orders in which a HashMap may iterate over its keys: every one.
Orders(S) ==
    {o \in [1..Cardinality(S) -> S] : \A i, j \in DOMAIN o : i # j => o[i] # o[j]}

\* serde_json::to_string(cache): {"entries":{ members }}, the members in the
\* map's iteration order.
to_string(m, order) ==
    <<LBrace, Str("entries"), Colon, LBrace>> \o Members(m, order) \o <<RBrace, RBrace>>

Parsed(ok, m) == [ok |-> ok, entries |-> m]

\* One member at the head of ts, as #[derive(Deserialize)] of CacheEntry
\* reads it: a string key, then an object with a string value and a u64
\* expiry.
is_member(ts) ==
    /\ Len(ts) >= MemberLen
    /\ ts[1].t = "str" /\ ts[2] = Colon /\ ts[3] = LBrace
    /\ ts[4] = Str("value") /\ ts[5] = Colon /\ ts[6].t = "str" /\ ts[7] = Comma
    /\ ts[8] = Str("expiry") /\ ts[9] = Colon
    /\ ts[10].t = "num" /\ ts[10].n >= 0 /\ ts[10].n <= U64Max
    /\ ts[11] = RBrace

RECURSIVE parse_members(_, _)
parse_members(ts, acc) ==
    IF ~is_member(ts) THEN Parsed(FALSE, new)
    ELSE LET m == map_insert(acc, ts[1].s, CacheEntry(ts[6].s, ts[10].n)) IN
         IF Len(ts) = MemberLen THEN Parsed(TRUE, m)
         ELSE IF ts[MemberLen + 1] = Comma
              THEN parse_members(SubSeq(ts, MemberLen + 2, Len(ts)), m)
              ELSE Parsed(FALSE, new)

\* serde_json::from_str::<Cache<String>>: the cache the text denotes, or a
\* deserialization error.
from_str(ts) ==
    IF /\ Len(ts) >= 6
       /\ SubSeq(ts, 1, 4) = <<LBrace, Str("entries"), Colon, LBrace>>
       /\ SubSeq(ts, Len(ts) - 1, Len(ts)) = <<RBrace, RBrace>>
    THEN IF Len(ts) = 6 THEN Parsed(TRUE, new)
         ELSE parse_members(SubSeq(ts, 5, Len(ts) - 2), new)
    ELSE Parsed(FALSE, new)

\* CACHE_FILE in the working directory: absent, or present with a content.
Absent == [exists |-> FALSE, data |-> <<>>]

File(data) == [exists |-> TRUE, data |-> data]

IoResult(ok, err, data) == [ok |-> ok, err |-> err, contents |-> data]

\* fs::read_to_string: fails when the file is absent and when its bytes are
\* not UTF-8.
read_to_string(f) ==
    IF ~f.exists THEN IoResult(FALSE, "NotFound", <<>>)
    ELSE IF \E i \in DOMAIN f.data : f.data[i].t = "bytes"
         THEN IoResult(FALSE, "InvalidData", <<>>)
    ELSE IoResult(TRUE, "", f.data)

\* What can go wrong in fs::write: nothing; File::create fails and the file
\* is as it was; or write_all fails after the file was truncated, and the
\* file keeps only the first `keep` tokens.
Fault(kind, keep) == [kind |-> kind, keep |-> keep]

NoFault == Fault("none", 0)

WriteFaults == {NoFault, Fault("create", 0), Fault("write", 0), Fault("write", 5)}

FsResult(ok, err, f) == [ok |-> ok, err |-> err, file |-> f]

\* A variant of File::create that opens the file without truncating it.
fs_create_keep(f, fault) ==
    IF fault.kind = "create" THEN FsResult(FALSE, "IOError", f)
    ELSE FsResult(TRUE, "", File(f.data))

\* File::create: the file exists and is empty afterwards, or it fails and
\* the file is as it was.
fs_create(f, fault) ==
    IF fault.kind = "create" THEN FsResult(FALSE, "IOError", f)
    ELSE FsResult(TRUE, "", File(<<>>))

\* Writing data at offset 0 of a file that holds old: what lies past the
\* written part stays.
Overlay(old, data) == data \o SubSeq(old, Len(data) + 1, Len(old))

\* A variant of write_all that is a single write: it may stop short (here
\* one token short) and still report success.
fs_write_all_partial(f, data, fault) ==
    IF fault.kind = "write"
    THEN FsResult(FALSE, "IOError", File(Overlay(f.data, SubSeq(data, 1, fault.keep))))
    ELSE FsResult(TRUE, "", File(Overlay(f.data, SubSeq(data, 1, Len(data) - 1))))

\* write_all on the created file: all of data, or on a failure only its
\* first `keep` tokens.
fs_write_all(f, data, fault) ==
    IF fault.kind = "write"
    THEN FsResult(FALSE, "IOError", File(Overlay(f.data, SubSeq(data, 1, fault.keep))))
    ELSE FsResult(TRUE, "", File(Overlay(f.data, data)))

\* fs::write(CACHE_FILE, data): File::create, then write_all.
fs_write(f, data, fault) ==
    LET c == fs_create(f, fault) IN
    IF c.ok THEN fs_write_all(c.file, data, fault) ELSE c

\* save_cache: serialize, write, propagate the write's error.
save_cache(m, f, order, fault) == fs_write(f, to_string(m, order), fault)

Loaded(ok, err, m, f) == [ok |-> ok, err |-> err, entries |-> m, file |-> f]

\* A variant of load_cache that returns the empty cache for a missing file
\* without creating the file.
load_cache_without_create(f, fault) ==
    LET r == read_to_string(f) IN
    IF r.ok
    THEN LET p == from_str(r.contents) IN
         IF p.ok THEN Loaded(TRUE, "", p.entries, f)
         ELSE Loaded(FALSE, "DeserializationError", new, f)
    ELSE Loaded(TRUE, "", new, f)

\* load_cache: the Ok arm deserializes; the Err(_) arm, taken for every read
\* error, saves and returns a new cache.
load_cache(f, fault) ==
    LET r == read_to_string(f) IN
    IF r.ok
    THEN LET p == from_str(r.contents) IN
         IF p.ok THEN Loaded(TRUE, "", p.entries, f)
         ELSE Loaded(FALSE, "DeserializationError", new, f)
    ELSE LET w == save_cache(new, f, <<>>, fault) IN
         IF w.ok THEN Loaded(TRUE, "", new, w.file)
         ELSE Loaded(FALSE, w.err, new, w.file)

(***************************************************************************)
(* State.                                                                  *)
(***************************************************************************)
VARIABLES
    now,              \* the system clock, whole seconds since the epoch
    overflow_checks,  \* whether the build checks integer overflow
    entries,          \* Cache::entries of the library client's cache
    status,           \* the library client: "running" or "panicked"
    last,             \* the client's last call and what it returned, or
                      \* the last change made to the file from outside
    prev,             \* the call before it: its operation and key
    file,             \* the file CACHE_FILE
    pc,               \* each invocation of main: where it stands
    command,          \* each invocation: cli.command
    cache,            \* each invocation: the entries of its cache
    stdout,           \* each invocation: the line it printed
    exit_code,        \* each invocation: its exit code, -1 while it runs
    steps,            \* each invocation: what it has completed so far, of
                      \* "load", "op" and "save", in order
    latest            \* the process whose invocation ended last ("" at first)

clientVars == <<entries, status, last, prev>>

mainVars == <<pc, command, cache, stdout, exit_code, steps, latest>>

vars == <<now, overflow_checks, file, clientVars, mainVars>>

\* A call record: the operation, its arguments, the clock it read, whether
\* the key was in the map before it, and its result.
Call(op, key, value, ttl, at, had) ==
    [op |-> op, key |-> key, value |-> value, ttl |-> ttl, at |-> at,
     had |-> had, ok |-> TRUE, ret |-> None, err |-> ""]

NoCall == Call("none", "", "", from_secs(0), 0, FALSE)

Brief(c) == [op |-> c.op, key |-> c.key, had |-> c.had]

\* The processes that run main.
Procs == {"p1", "p2"}

\* cli.command: the subcommand and its arguments.
Cmd(op, key, value, ttl) == [op |-> op, key |-> key, value |-> value, ttl |-> ttl]

NoCmd == Cmd("none", "", "", 0)

\* A line on standard output.
Line(kind, key, value) == [kind |-> kind, key |-> key, value |-> value]

NoLine == Line("none", "", "")

\* A new library client with an empty cache.
InitClient ==
    /\ entries = new
    /\ status = "running"
    /\ last = NoCall
    /\ prev = Brief(NoCall)

\* No invocation of main has started.
InitMain ==
    /\ pc = [p \in Procs |-> "idle"]
    /\ command = [p \in Procs |-> NoCmd]
    /\ cache = [p \in Procs |-> new]
    /\ stdout = [p \in Procs |-> NoLine]
    /\ exit_code = [p \in Procs |-> -1]
    /\ steps = [p \in Procs |-> <<>>]
    /\ latest = ""

Init ==
    /\ now \in ClockValues
    /\ overflow_checks \in BOOLEAN
    /\ file = Absent
    /\ InitClient
    /\ InitMain

\* The client's call returns or panics; a panic ends the client.
Finish(call, out) ==
    /\ entries' = out.entries
    /\ status' = IF out.panic THEN "panicked" ELSE "running"
    /\ last' = [call EXCEPT !.ok = ~out.panic, !.ret = out.ret,
                            !.err = IF out.panic THEN "panic" ELSE ""]
    /\ prev' = Brief(last)

Insert(key, value, ttl) ==
    /\ status = "running"
    /\ Finish(Call("insert", key, value, ttl, now, key \in DOMAIN entries),
              insert(entries, key, value, ttl, now, overflow_checks))
    /\ UNCHANGED <<now, overflow_checks, file, mainVars>>

Get(key) ==
    /\ status = "running"
    /\ Finish(Call("get", key, "", from_secs(0), now, key \in DOMAIN entries),
              get(entries, key, now))
    /\ UNCHANGED <<now, overflow_checks, file, mainVars>>

Invalidate(key) ==
    /\ status = "running"
    /\ Finish(Call("invalidate", key, "", from_secs(0), now, key \in DOMAIN entries),
              invalidate(entries, key))
    /\ UNCHANGED <<now, overflow_checks, file, mainVars>>

\* The system clock is not monotonic: it moves to any other second.
SetSystemTime(t) ==
    /\ t # now
    /\ now' = t
    /\ UNCHANGED <<overflow_checks, file, clientVars, mainVars>>

\* The client calls save_cache(&cache).
SaveCache(order, fault) ==
    /\ status = "running"
    /\ LET w == save_cache(entries, file, order, fault) IN
       /\ file' = w.file
       /\ last' = [Call("save", "", "", from_secs(0), now, file.exists)
                     EXCEPT !.ok = w.ok, !.err = w.err]
    /\ prev' = Brief(last)
    /\ UNCHANGED <<now, overflow_checks, entries, status, mainVars>>

\* The client calls load_cache() and, when it returns a cache, goes on with
\* that cache.
LoadCache(fault) ==
    /\ status = "running"
    /\ LET l == load_cache(file, fault) IN
       /\ file' = l.file
       /\ entries' = IF l.ok THEN l.entries ELSE entries
       /\ last' = [Call("load", "", "", from_secs(0), now, file.exists)
                     EXCEPT !.ok = l.ok, !.err = l.err]
    /\ prev' = Brief(last)
    /\ UNCHANGED <<now, overflow_checks, status, mainVars>>

\* Something other than the program writes the file.
ExternalWrite(data) ==
    /\ file # File(data)
    /\ file' = File(data)
    /\ last' = Call("external", "", "", from_secs(0), now, file.exists)
    /\ prev' = Brief(last)
    /\ UNCHANGED <<now, overflow_checks, entries, status, mainVars>>

\* Something other than the program removes the file.
ExternalRemove ==
    /\ file.exists
    /\ file' = Absent
    /\ last' = Call("external", "", "", from_secs(0), now, file.exists)
    /\ prev' = Brief(last)
    /\ UNCHANGED <<now, overflow_checks, entries, status, mainVars>>

Next ==
    \/ \E k \in Keys, v \in Values, d \in Durations : Insert(k, v, d)
    \/ \E k \in Keys : Get(k)
    \/ \E k \in Keys : Invalidate(k)
    \/ \E t \in ClockValues : SetSystemTime(t)

Spec == Init /\ [][Next]_vars

(***************************************************************************)
(* The persistence adapter: the client also saves and loads its cache, and *)
(* the file may be changed from outside.                                   *)
(***************************************************************************)
PersistClock == {0, 1}

PersistValues == {"v1"}

\* Ttls small enough that no expiry of this specification overflows, so the
\* build's overflow checking (fixed in InitPersist) plays no part.
PersistDurations == {from_secs(0), from_secs(1)}

\* Contents the file may be given from outside: an empty file, text that is
\* not a serialized cache, and bytes that are not UTF-8.
ExternalContents ==
    {<<>>, <<LBrace, Str("entries"), Colon>>, <<InvalidUtf8>>}

InitPersist ==
    /\ now \in PersistClock
    /\ overflow_checks = TRUE
    /\ file \in {Absent} \cup {File(d) : d \in ExternalContents}
    /\ InitClient
    /\ InitMain

NextPersist ==
    \/ \E k \in Keys, v \in PersistValues, d \in PersistDurations : Insert(k, v, d)
    \/ \E k \in Keys : Get(k)
    \/ \E k \in Keys : Invalidate(k)
    \/ \E t \in PersistClock : SetSystemTime(t)
    \/ \E o \in Orders(DOMAIN entries), ft \in WriteFaults : SaveCache(o, ft)
    \/ \E ft \in WriteFaults : LoadCache(ft)
    \/ \E d \in ExternalContents : ExternalWrite(d)
    \/ ExternalRemove

SpecPersist == InitPersist /\ [][NextPersist]_vars

(***************************************************************************)
(* main: one invocation per process at a time.  load_cache().unwrap(), the *)
(* one operation with its println!, save_cache(&cache)?, Ok(()).  The two  *)
(* halves of fs::write are separate steps, so that processes on the same   *)
(* file interleave as the operating system lets them.                      *)
(***************************************************************************)
MainClock == {0, 1}

\* The command lines the processes are started with (--ttl in seconds); no
\* ttl among them overflows an expiry, so the build's overflow checking
\* (fixed in InitMainSpec) plays no part.
MainCommands ==
    {Cmd("insert", "a", "v1", 1), Cmd("insert", "b", "v2", 0),
     Cmd("get", "a", "", 0), Cmd("invalidate", "a", "", 0)}

\* The process ends: a panic exits with 101, an Err from main with 1, and
\* Ok(()) with 0.
Exit(p, code) ==
    /\ pc' = [pc EXCEPT ![p] = "done"]
    /\ exit_code' = [exit_code EXCEPT ![p] = code]
    /\ latest' = p

Goto(p, label) ==
    /\ pc' = [pc EXCEPT ![p] = label]
    /\ UNCHANGED <<exit_code, latest>>

\* The invocation of p has completed one more of its steps.
Completed(p, step) == steps' = [steps EXCEPT ![p] = Append(@, step)]

\* Cli::parse(): a process starts with one of the command lines.
Parse(p, c) ==
    /\ pc[p] \in {"idle", "done"}
    /\ pc' = [pc EXCEPT ![p] = "load"]
    /\ command' = [command EXCEPT ![p] = c]
    /\ cache' = [cache EXCEPT ![p] = new]
    /\ stdout' = [stdout EXCEPT ![p] = NoLine]
    /\ exit_code' = [exit_code EXCEPT ![p] = -1]
    /\ steps' = [steps EXCEPT ![p] = <<>>]
    /\ UNCHANGED <<now, overflow_checks, file, latest, clientVars>>

\* load_cache: read_to_string and its match.  A deserialization error comes
\* back to main's unwrap, which panics; a read error goes on to save a new
\* cache.
LoadRead(p) ==
    /\ pc[p] = "load"
    /\ LET r == read_to_string(file)
           d == from_str(r.contents)
       IN  IF r.ok /\ d.ok
           THEN /\ cache' = [cache EXCEPT ![p] = d.entries]
                /\ Completed(p, "load")
                /\ Goto(p, "apply")
           ELSE IF r.ok
           THEN UNCHANGED <<cache, steps>> /\ Exit(p, 101)
           ELSE /\ cache' = [cache EXCEPT ![p] = new]
                /\ UNCHANGED steps
                /\ Goto(p, "init_create")
    /\ UNCHANGED <<now, overflow_checks, file, command, stdout, clientVars>>

\* load_cache, Err(_) arm: save_cache(&cache)?, first File::create.
InitCreate(p, fault) ==
    /\ pc[p] = "init_create"
    /\ LET c == fs_create(file, fault) IN
       /\ file' = c.file
       /\ IF c.ok THEN Goto(p, "init_write") ELSE Exit(p, 101)
    /\ UNCHANGED <<now, overflow_checks, command, cache, stdout, steps, clientVars>>

\* load_cache, Err(_) arm: then write_all of the serialized new cache.
InitWrite(p, fault) ==
    /\ pc[p] = "init_write"
    /\ LET w == fs_write_all(file, to_string(cache[p], <<>>), fault) IN
       /\ file' = w.file
       /\ IF w.ok THEN Completed(p, "load") /\ Goto(p, "apply")
                  ELSE UNCHANGED steps /\ Exit(p, 101)
    /\ UNCHANGED <<now, overflow_checks, command, cache, stdout, clientVars>>

\* The match on cli.command: the operation, then its println!.
Apply(p) ==
    /\ pc[p] = "apply"
    /\ LET c == command[p]
           o == IF c.op = "insert"
                THEN insert(cache[p], c.key, c.value, from_secs(c.ttl), now, overflow_checks)
                ELSE IF c.op = "get" THEN get(cache[p], c.key, now)
                ELSE invalidate(cache[p], c.key)
       IN  IF o.panic
           THEN UNCHANGED <<cache, stdout, steps>> /\ Exit(p, 101)
           ELSE /\ cache' = [cache EXCEPT ![p] = o.entries]
                /\ stdout' = [stdout EXCEPT ![p] =
                      IF c.op = "insert" THEN Line("inserted", c.key, "")
                      ELSE IF c.op = "invalidate" THEN Line("invalidated", c.key, "")
                      ELSE IF o.ret.some THEN Line("value", c.key, o.ret.value)
                      ELSE Line("not_found", c.key, "")]
                /\ Completed(p, "op")
                /\ Goto(p, "save_create")
    /\ UNCHANGED <<now, overflow_checks, file, command, clientVars>>

\* save_cache(&cache)? at the end of main, first File::create.
SaveCreate(p, fault) ==
    /\ pc[p] = "save_create"
    /\ LET c == fs_create(file, fault) IN
       /\ file' = c.file
       /\ IF c.ok THEN Goto(p, "save_write") ELSE Exit(p, 1)
    /\ UNCHANGED <<now, overflow_checks, command, cache, stdout, steps, clientVars>>

\* save_cache(&cache)? at the end of main, then write_all and Ok(()).
SaveWrite(p, order, fault) ==
    /\ pc[p] = "save_write"
    /\ LET w == fs_write_all(file, to_string(cache[p], order), fault) IN
       /\ file' = w.file
       /\ IF w.ok THEN Completed(p, "save") /\ Exit(p, 0)
                  ELSE UNCHANGED steps /\ Exit(p, 1)
    /\ UNCHANGED <<now, overflow_checks, command, cache, stdout, clientVars>>

CreateFaults == {NoFault, Fault("create", 0)}

\* A failed write_all of main leaves the file empty (nothing was written).
WriteAllFaults == {NoFault, Fault("write", 0)}

InitMainSpec ==
    /\ now \in MainClock
    /\ overflow_checks = FALSE
    /\ file \in {Absent} \cup {File(d) : d \in ExternalContents}
    /\ InitClient
    /\ InitMain

NextMain ==
    \/ \E p \in Procs, c \in MainCommands : Parse(p, c)
    \/ \E p \in Procs : LoadRead(p)
    \/ \E p \in Procs, ft \in CreateFaults : InitCreate(p, ft)
    \/ \E p \in Procs, ft \in WriteAllFaults : InitWrite(p, ft)
    \/ \E p \in Procs : Apply(p)
    \/ \E p \in Procs, ft \in CreateFaults : SaveCreate(p, ft)
    \/ \E p \in Procs, ft \in WriteAllFaults :
          \E o \in Orders(DOMAIN cache[p]) : SaveWrite(p, o, ft)
    \/ \E t \in MainClock : SetSystemTime(t)

SpecMain == InitMainSpec /\ [][NextMain]_vars

(***************************************************************************)
(* main in sequential use: an invocation starts only when no other runs.   *)
(* The command lines include a ttl that overflows the expiry, the clock    *)
(* may stand before the epoch, and the build is either profile.            *)
(***************************************************************************)
SeqClock == {-1, 0, 1}

SeqCommands ==
    {Cmd("insert", "a", "v1", 1), Cmd("insert", "a", "v2", U64Max),
     Cmd("get", "a", "", 0), Cmd("invalidate", "a", "", 0)}

\* No invocation of main is running.
Quiet == \A q \in Procs : pc[q] \in {"idle", "done"}

InitSeq ==
    /\ now \in SeqClock
    /\ overflow_checks \in BOOLEAN
    /\ file \in {Absent} \cup {File(d) : d \in ExternalContents}
    /\ InitClient
    /\ InitMain

NextSeq ==
    \/ \E p \in Procs, c \in SeqCommands : Quiet /\ Parse(p, c)
    \/ \E p \in Procs : LoadRead(p)
    \/ \E p \in Procs, ft \in CreateFaults : InitCreate(p, ft)
    \/ \E p \in Procs, ft \in WriteAllFaults : InitWrite(p, ft)
    \/ \E p \in Procs : Apply(p)
    \/ \E p \in Procs, ft \in CreateFaults : SaveCreate(p, ft)
    \/ \E p \in Procs, ft \in WriteAllFaults :
          \E o \in Orders(DOMAIN cache[p]) : SaveWrite(p, o, ft)
    \/ \E t \in SeqClock : SetSystemTime(t)

SpecSeq == InitSeq /\ [][NextSeq]_vars

(***************************************************************************)
(* Properties of Cache<T> (under Spec).                                    *)
(***************************************************************************)
\* The true deadline of the last insert: insertion time plus ttl seconds.
Deadline(c) == c.at + as_secs(c.ttl)

\* C1: get(k) returns none when k is absent, the stored value when k is
\* present and now < expiry, and none when k is present and now >= expiry:
\* the entry is valid up to and excluding the expiry second.
C1_GetByExpiry ==
    [][\A k \in Keys : (k \in DOMAIN entries => now >= 0) /\ Get(k) =>
          /\ last'.ok
          /\ last'.ret = IF k \in DOMAIN entries /\ now < entries[k].expiry
                         THEN Some(entries[k].value)
                         ELSE None]_vars

\* C1 witness: a get found its key in the map at or past the expiry second
\* and returned none.
C1_Witness ==
    /\ last.op = "get" /\ last.had /\ last.ok /\ last.ret = None
    /\ prev.op = "insert" /\ prev.key = last.key

\* C2: for every key, value and ttl t > 0, a get(k) that immediately follows
\* insert(k, v, t), with the clock not yet at insertion time + t, returns v.
C2_InsertThenGet ==
    [][\A k \in Keys :
          /\ last.op = "insert" /\ last.key = k /\ last.ok
          /\ as_secs(last.ttl) > 0
          /\ last.at <= now /\ now < Deadline(last)
          /\ Get(k)
          => last'.ok /\ last'.ret = Some(last.value)]_vars

\* C3: after insert(k, v1, t1) then insert(k, v2, t2) the map holds one entry
\* for k, with value v2 and expiry = (time of the second insert) + t2; a
\* following get(k) returns v2 before that expiry and none from it on.
C3_Overwrite ==
    [][/\ (last'.op = "insert" /\ last'.ok /\ last'.had
           /\ prev'.op = "insert" /\ prev'.key = last'.key
           => /\ last'.key \in DOMAIN entries'
              /\ entries'[last'.key] = CacheEntry(last'.value, Deadline(last')))
       /\ \A k \in Keys :
             /\ last.op = "insert" /\ last.key = k /\ last.ok /\ last.had
             /\ prev.op = "insert" /\ prev.key = k
             /\ now >= 0
             /\ Get(k)
             => last'.ret = IF now < Deadline(last) THEN Some(last.value) ELSE None]_vars

\* The map m without key k, every other entry as it was.
Without(m, k) == [j \in (DOMAIN m) \ {k} |-> m[j]]

\* C4: invalidate(k) removes the entry of k whether or not it has expired and
\* changes nothing, without error, when k is absent; a get(k) that follows it
\* returns none at every clock value.
C4_Invalidate ==
    [][\A k \in Keys :
          /\ Invalidate(k) => last'.ok /\ entries' = Without(entries, k)
          /\ last.op = "invalidate" /\ last.key = k /\ Get(k)
             => last'.ok /\ last'.ret = None]_vars

\* C4 witness: insert(k), invalidate(k) with k in the map, then get(k)
\* returned none.
C4_Witness ==
    /\ last.op = "get" /\ last.ok /\ last.ret = None /\ ~last.had
    /\ prev.op = "invalidate" /\ prev.key = last.key /\ prev.had

\* C5: a get(k) at a clock value >= the entry's expiry returns none and
\* leaves the map without k, every other key's entry unchanged.
C5_LazyRemoval ==
    [][\A k \in Keys :
          k \in DOMAIN entries /\ now >= entries[k].expiry /\ Get(k)
          => last'.ok /\ last'.ret = None /\ entries' = Without(entries, k)]_vars

\* C5 witness: a get removed its expired key while the other key stayed.
C5_Witness ==
    /\ last.op = "get" /\ last.had /\ last.ok /\ last.ret = None
    /\ last.key \notin DOMAIN entries
    /\ DOMAIN entries # {}

\* C6: an insert whose ttl has zero whole seconds (0, or a sub-second ttl)
\* stores expiry = insertion time, and a get(k) at a clock value >= the
\* insertion time returns none.
C6_ZeroTtl ==
    [][/\ (last'.op = "insert" /\ last'.ok /\ last'.ttl.secs = 0
           => /\ last'.key \in DOMAIN entries'
              /\ entries'[last'.key].expiry = last'.at)
       /\ \A k \in Keys :
             /\ last.op = "insert" /\ last.key = k /\ last.ok /\ last.ttl.secs = 0
             /\ now >= last.at
             /\ Get(k)
             => last'.ok /\ last'.ret = None]_vars

\* C6 witness: an insert with a sub-second ttl stored its own insertion time
\* as the expiry, so the entry is expired from that second on.
C6_Witness ==
    /\ last.op = "insert" /\ last.ok /\ last.ttl = Duration(0, 500000000)
    /\ entries[last.key].expiry = last.at
    /\ now >= last.at

(***************************************************************************)
(* Properties of load_cache and save_cache (under SpecPersist).            *)
(***************************************************************************)
\* C7: for every cache the client reaches by insert/get/invalidate, a
\* save_cache that succeeds followed by load_cache yields a cache with the
\* same keys and, for each key, the same value and the same expiry, entries
\* whose expiry has passed included.
C7_RoundTrip ==
    [][\A ft \in WriteFaults :
          last.op = "save" /\ last.ok /\ LoadCache(ft)
          => last'.ok /\ entries' = entries /\ file' = file]_vars

\* C7 witness: a load right after a save returned a cache of two entries,
\* one of them with its expiry in the past.
C7_Witness ==
    /\ last.op = "load" /\ last.ok /\ prev.op = "save"
    /\ DOMAIN entries = Keys
    /\ \E k \in Keys : entries[k].expiry < now
    /\ \E k \in Keys : entries[k].expiry > now

EmptySnapshot == File(to_string(new, <<>>))

\* C8 as stated: when no file exists, load_cache returns an empty cache and
\* creates the file holding the serialized empty cache, and a second
\* load_cache right after it succeeds and returns an empty cache; a missing
\* file is never an error.
C8_FirstRun ==
    [][\A ft \in WriteFaults :
          /\ ~file.exists /\ LoadCache(ft)
             => last'.ok /\ entries' = new /\ file' = EmptySnapshot
          /\ last.op = "load" /\ ~last.had /\ LoadCache(ft)
             => last'.ok /\ entries' = new]_vars

\* C8 amended: when no file exists and the write that creates it succeeds,
\* load_cache returns an empty cache and leaves the file holding the
\* serialized empty cache, and a second load_cache right after it succeeds
\* and returns an empty cache; when that write fails, load_cache fails with
\* the write's IOError and returns no cache.
C8_FirstRunWritable ==
    [][\A ft \in WriteFaults :
          /\ ~file.exists /\ LoadCache(ft)
             => IF ft = NoFault
                THEN last'.ok /\ entries' = new /\ file' = EmptySnapshot
                ELSE ~last'.ok /\ last'.err = "IOError" /\ entries' = entries
          /\ last.op = "load" /\ ~last.had /\ last.ok /\ LoadCache(ft)
             => last'.ok /\ entries' = new /\ file' = file]_vars

\* C8 witness: the second load after a first run found the created file and
\* returned an empty cache.
C8_Witness ==
    /\ last.op = "load" /\ last.ok /\ last.had
    /\ prev.op = "load" /\ ~prev.had
    /\ entries = new /\ file = EmptySnapshot

\* C10: a read of the file that fails for a reason other than the file being
\* absent makes load_cache fail: it returns no cache and leaves the file as
\* it was.
C10_ReadErrorPropagates ==
    [][\A ft \in WriteFaults :
          file.exists /\ ~read_to_string(file).ok /\ LoadCache(ft)
          => ~last'.ok /\ file' = file]_vars

(***************************************************************************)
(* Properties of main (under SpecMain).                                    *)
(***************************************************************************)
\* The file holds a serialized cache: it reads as text and deserializes.
ValidSnapshot(f) == read_to_string(f).ok /\ from_str(read_to_string(f).contents).ok

\* C9: when the file exists but its content is not a valid serialized cache,
\* load_cache fails instead of falling back to an empty cache: the invocation
\* ends at the load with a non-zero exit code, having applied no operation
\* (nothing printed), performed no save and left the file as it was.
C9_CorruptFileFails ==
    [][\A p \in Procs :
          pc[p] = "load" /\ file.exists /\ ~ValidSnapshot(file) /\ LoadRead(p)
          => /\ pc'[p] = "done"
             /\ exit_code'[p] \notin {-1, 0}
             /\ stdout'[p] = NoLine
             /\ file' = file]_vars

(***************************************************************************)
(* Further properties of Cache (under Spec).                               *)
(***************************************************************************)
\* C13: with the clock at or after the epoch, insert(k, v, ttl) succeeds for
\* every ttl, never panics, and stores the expiry now + ttl.seconds, not
\* wrapped.
C13_InsertNeverOverflows ==
    [][\A k \in Keys, v \in Values, d \in Durations :
          now >= 0 /\ Insert(k, v, d)
          => /\ last'.ok
             /\ k \in DOMAIN entries'
             /\ entries'[k] = CacheEntry(v, now + as_secs(d))]_vars

\* C17: a get(k) that returns a value leaves the whole map unchanged, the
\* expiry of k included; so after any hit, a get(k) at or after that
\* unchanged expiry returns none.
C17_NoSlidingExpiration ==
    [][\A k \in Keys :
          k \in DOMAIN entries /\ Get(k)
          => /\ last'.ret.some => entries' = entries
             /\ (last.op = "get" /\ last.key = k /\ last.ret.some
                  /\ now >= entries[k].expiry)
                => last'.ok /\ last'.ret = None]_vars

\* C17 witness: two gets of the same key in a row, both returning its value.
C17_Witness ==
    /\ last.op = "get" /\ last.ok /\ last.ret.some
    /\ prev.op = "get" /\ prev.key = last.key /\ prev.had
    /\ last.key \in DOMAIN entries

\* C18: a get(k) that returns none leaves k absent; an absent k becomes
\* present only by insert(k); and a get(k) of an absent k returns none at
\* every clock value.  So after get(k) returned none, every get(k) returns
\* none until the next insert(k), also when the clock moves backwards.
C18_NoneUntilInsert ==
    [][\A k \in Keys :
          /\ (last'.op = "get" /\ last'.ok /\ ~last'.ret.some /\ Get(k))
             => k \notin DOMAIN entries'
          /\ (k \notin DOMAIN entries /\ k \in DOMAIN entries')
             => last'.op = "insert" /\ last'.key = k
          /\ (k \notin DOMAIN entries /\ Get(k))
             => last'.ok /\ last'.ret = None]_vars

\* C18 witness: a get found the key's entry expired and removed it, and the
\* next get of the key, made at clock 0, returned none again.
C18_Witness ==
    /\ last.op = "get" /\ last.ok /\ last.ret = None /\ ~last.had
    /\ prev.op = "get" /\ prev.key = last.key /\ prev.had
    /\ last.at = 0

(***************************************************************************)
(* Further properties of persistence (under SpecPersist).                  *)
(***************************************************************************)
\* C16: an entry for k whose expiry has passed keeps its place, its value
\* and its expiry through every step that is not an insert, get or
\* invalidate of k (nor a load of a file the client did not just save): it
\* survives operations on other keys, clock changes, and save followed by
\* load, and a save that succeeds writes it to the file unchanged.
C16_LazyOnly ==
    [][\A k \in Keys :
          (k \in DOMAIN entries /\ now >= entries[k].expiry)
          => /\ (k \notin DOMAIN entries' \/ entries'[k] # entries[k])
                => \/ last'.key = k /\ last'.op \in {"insert", "get", "invalidate"}
                   \/ last'.op = "load" /\ ~(last.op = "save" /\ last.ok)
             /\ (last'.op = "save" /\ last'.ok
                 /\ \E o \in Orders(DOMAIN entries), ft \in WriteFaults :
                       SaveCache(o, ft))
                => /\ ValidSnapshot(file')
                   /\ k \in DOMAIN from_str(file'.data).entries
                   /\ from_str(file'.data).entries[k] = entries[k]]_vars

\* C16 witness: an entry whose expiry has passed is still in the map after a
\* get of another key, and the file the client saved holds it too.
C16_Witness ==
    /\ last.op = "get" /\ last.ok
    /\ \E k \in Keys \ {last.key} :
          /\ k \in DOMAIN entries /\ now >= entries[k].expiry
          /\ ValidSnapshot(file)
          /\ k \in DOMAIN from_str(file.data).entries
          /\ from_str(file.data).entries[k] = entries[k]

(***************************************************************************)
(* Properties of main in sequential use (under SpecSeq).                   *)
(***************************************************************************)
\* The invocation q ended last, with exit code 0, and p is another process.
Previous(q, p) == q = latest /\ q # p /\ pc[q] = "done" /\ exit_code[q] = 0

\* C11: in sequential use an invocation that follows one that exited with
\* code 0 loads exactly the cache that one held when it saved; so a get of k
\* after an insert of (k, v, ttl), run before the stored expiry, prints v,
\* and a get of k after an invalidate of k prints not-found.
C11_SequentialRuns ==
    [][\A p, q \in Procs :
          Previous(q, p)
          => /\ (pc[p] = "load" /\ LoadRead(p))
                => pc'[p] = "apply" /\ cache'[p] = cache[q]
             /\ (pc[p] = "apply" /\ command[p].op = "get" /\ now >= 0 /\ Apply(p))
                => LET k == command[p].key
                       c == command[q]
                   IN  /\ (c.op = "insert" /\ c.key = k /\ now < cache[q][k].expiry)
                          => stdout'[p] = Line("value", k, c.value)
                       /\ (c.op = "invalidate" /\ c.key = k)
                          => stdout'[p] = Line("not_found", k, "")]_vars

\* C11 witness: an insert of (a, v1) exited with code 0, and the get of a
\* that ran next has just printed v1.
C11_Witness ==
    \E p, q \in Procs :
        /\ Previous(q, p)
        /\ command[q].op = "insert" /\ command[q].key = "a"
        /\ command[p] = Cmd("get", "a", "", 0)
        /\ pc[p] = "save_create"
        /\ stdout[p] = Line("value", "a", command[q].value)

\* C12: with the clock at or after the epoch, a get invocation prints the
\* value exactly when the loaded cache holds the key with now < expiry and
\* not-found otherwise, and exits with code 0 when its save does not fail;
\* and an invocation exits with a non-zero code only in load or in save.
C12_GetOutcomeAndExitCodes ==
    [][\A p \in Procs :
          now >= 0
          => /\ (pc[p] = "apply" /\ command[p].op = "get" /\ Apply(p))
                => LET k == command[p].key IN
                   stdout'[p] = IF k \in DOMAIN cache[p] /\ now < cache[p][k].expiry
                                THEN Line("value", k, cache[p][k].value)
                                ELSE Line("not_found", k, "")
             /\ (pc[p] = "save_write" /\ command[p].op = "get"
                 /\ \E o \in Orders(DOMAIN cache[p]) : SaveWrite(p, o, NoFault))
                => exit_code'[p] = 0
             /\ (exit_code[p] = -1 /\ exit_code'[p] \notin {-1, 0})
                => pc[p] \in {"load", "init_create", "init_write",
                              "save_create", "save_write"}]_vars

\* C15: an invocation that exits with code 0 has completed one load, then
\* one cache operation (and printed its line), then one save; the step that
\* ends it writes the file, also in a get run, and leaves in the file
\* exactly the serialized cache the invocation holds after its operation.
C15_LoadOpSave ==
    [][\A p \in Procs :
          (exit_code[p] = -1 /\ exit_code'[p] = 0)
          => /\ steps'[p] = <<"load", "op", "save">>
             /\ stdout'[p] # NoLine
             /\ cache'[p] = cache[p]
             /\ \E o \in Orders(DOMAIN cache[p]) : file' = File(to_string(cache[p], o))
             /\ ValidSnapshot(file')
             /\ from_str(file'.data).entries = cache[p]]_vars

\* C15 witness: a get invocation that printed not-found and removed the
\* expired entry has exited with code 0, and the file holds the cache
\* without that entry.
C15_Witness ==
    \E p \in Procs :
        /\ latest = p /\ pc[p] = "done" /\ exit_code[p] = 0
        /\ stdout[p] = Line("not_found", "a", "")
        /\ steps[p] = <<"load", "op", "save">>
        /\ file = File(to_string(new, <<>>))
        /\ \E q \in Procs \ {p} : "a" \in DOMAIN cache[q] /\ exit_code[q] = 0

\* C20: when an insert or invalidate invocation that printed its confirmation
\* exits, the file is a valid snapshot holding the change: the inserted key
\* with its value, or no entry for the invalidated key.
C20_ConfirmedMeansSaved ==
    [][\A p \in Procs :
          (exit_code[p] = -1 /\ exit_code'[p] # -1
           /\ stdout'[p].kind \in {"inserted", "invalidated"})
          => /\ ValidSnapshot(file')
             /\ LET m == from_str(file'.data).entries
                    c == command[p]
                IN  IF c.op = "insert"
                    THEN c.key \in DOMAIN m /\ m[c.key].value = c.value
                    ELSE c.key \notin DOMAIN m]_vars

(***************************************************************************)
(* Properties of concurrent invocations of main (under SpecMain).          *)
(***************************************************************************)
\* C14: there is no conflict detection.  A save whose write follows its own
\* truncation of the file exits with code 0 and leaves in the file exactly
\* the writer's own snapshot, whatever another invocation saved since the
\* writer loaded; the witness is the lost update this allows.
C14_LastWriterWins ==
    [][\A p \in Procs :
          (pc[p] = "save_write" /\ file = File(<<>>))
          => \A o \in Orders(DOMAIN cache[p]) :
                SaveWrite(p, o, NoFault)
                => /\ exit_code'[p] = 0
                   /\ stdout'[p] = stdout[p]
                   /\ file' = File(to_string(cache[p], o))]_vars

\* C14 witness: p inserted a and q inserted b, both loaded before either
\* saved, both exited with code 0 after printing their confirmation, and the
\* file is q's snapshot alone: p's insert of a is lost.
C14_LostUpdate ==
    \E p, q \in Procs :
        /\ p # q /\ latest = q
        /\ pc[p] = "done" /\ pc[q] = "done"
        /\ exit_code[p] = 0 /\ exit_code[q] = 0
        /\ command[p].op = "insert" /\ command[p].key = "a"
        /\ command[q].op = "insert" /\ command[q].key = "b"
        /\ stdout[p].kind = "inserted" /\ stdout[q].kind = "inserted"
        /\ "b" \notin DOMAIN cache[p] /\ "a" \notin DOMAIN cache[q]
        /\ ValidSnapshot(file)
        /\ from_str(file.data).entries = cache[q]

\* C19: the file, once absent or a valid snapshot, is absent or a valid
\* snapshot after every step; and a load that runs while another invocation
\* is between the two halves of its save does not fail.
C19_AtomicSave ==
    [][/\ (~file.exists \/ ValidSnapshot(file))
          => (~file'.exists \/ ValidSnapshot(file'))
       /\ \A p, q \in Procs :
             (p # q /\ pc[p] = "load" /\ pc[q] = "save_write"
              /\ steps[q] = <<"load", "op">> /\ LoadRead(p))
             => pc'[p] = "apply"]_vars

====
